---- MODULE Spec2Model ----
(***************************************************************************)
(* TruffleArchiveParticipant of mx.truffle/mx_truffle.py: the merger of    *)
(* the META-INF/truffle/language and META-INF/truffle/instrument entries   *)
(* of the jars that are combined into one archive.                         *)
(*                                                                         *)
(* Text is a sequence of characters.  A character is a one-character       *)
(* string; the two words "language" and "instrument" are kept as one unit  *)
(* each (no input of the model spells them partially), and Ord orders a    *)
(* word by its first letter, which is where the two words differ.          *)
(***************************************************************************)
EXTENDS Naturals, Sequences, FiniteSets, TLC

\* Bound of the model: the number of raw lines (pieces between '\n') the host
\* passes to __add__ under a recognized name during the life of one participant.
MaxLines == 3

\* Bound of the model: the number of __closing__ calls a host that does not
\* follow the protocol makes on one archive.
MaxCloses == 2

----------------------------------------------------------------------------
\* Python string primitives used by the participant

\* Character codes (ASCII); a word is ordered by its first letter.
Ord(c) ==
    CASE c = "\t" -> 9
      [] c = "\n" -> 10
      [] c = "\f" -> 12
      [] c = "\r" -> 13
      [] c = " " -> 32
      [] c = "#" -> 35
      [] c = "." -> 46
      [] c = "0" -> 48
      [] c = "1" -> 49
      [] c = "2" -> 50
      [] c = "3" -> 51
      [] c = "4" -> 52
      [] c = "5" -> 53
      [] c = "6" -> 54
      [] c = "7" -> 55
      [] c = "8" -> 56
      [] c = "9" -> 57
      [] c = "a" -> 97
      [] c = "b" -> 98
      [] c = "c" -> 99
      [] c = "instrument" -> 105
      [] c = "language" -> 108

\* str.isspace of one character: what str.strip() removes
isspace(c) == c \in {" ", "\t", "\n", "\r", "\f"}

\* the regular expression class \d
isdigit(c) == c \in {"0", "1", "2", "3", "4", "5", "6", "7", "8", "9"}

RECURSIVE lstrip(_)
lstrip(s) ==
    IF s # <<>> /\ isspace(Head(s)) THEN lstrip(Tail(s)) ELSE s

RECURSIVE rstrip(_)
rstrip(s) ==
    IF s # <<>> /\ isspace(s[Len(s)]) THEN rstrip(SubSeq(s, 1, Len(s) - 1)) ELSE s

\* contents.strip()
strip(s) == rstrip(lstrip(s))

\* s.startswith(p)
startswith(s, p) == Len(s) >= Len(p) /\ SubSeq(s, 1, Len(p)) = p

\* the least index >= i at which sep occurs in s, or 0
RECURSIVE find(_, _, _)
find(s, sep, i) ==
    IF i + Len(sep) - 1 > Len(s) THEN 0
    ELSE IF s[i] = sep[1] /\ SubSeq(s, i, i + Len(sep) - 1) = sep THEN i
    ELSE find(s, sep, i + 1)

\* s.split(sep): the pieces between the occurrences of sep, at least one piece
RECURSIVE split(_, _)
split(s, sep) ==
    LET i == find(s, sep, 1) IN
    IF i = 0 THEN <<s>>
    ELSE <<SubSeq(s, 1, i - 1)>> \o split(SubSeq(s, i + Len(sep), Len(s)), sep)

\* sep.join(lines)
RECURSIVE join(_, _)
join(sep, lines) ==
    IF lines = <<>> THEN <<>>
    ELSE IF Len(lines) = 1 THEN lines[1]
    ELSE lines[1] \o sep \o join(sep, Tail(lines))

\* str(counter) of a positive integer, in decimal
RECURSIVE str(_)
str(n) ==
    LET d == <<"0", "1", "2", "3", "4", "5", "6", "7", "8", "9">>[(n % 10) + 1] IN
    IF n < 10 THEN <<d>> ELSE str(n \div 10) \o <<d>>

\* a < b for Python strings: the order sorted() uses
RECURSIVE strless(_, _)
strless(a, b) ==
    IF b = <<>> THEN FALSE
    ELSE IF a = <<>> THEN TRUE
    ELSE IF Head(a) # Head(b) THEN Ord(Head(a)) < Ord(Head(b))
    ELSE strless(Tail(a), Tail(b))

\* sorted(keys) as it would be with the keys compared by their numbers: a
\* shorter key first, keys of one length in string order
RECURSIVE sorted_by_number(_)
sorted_by_number(keys) ==
    IF keys = {} THEN <<>>
    ELSE LET least == CHOOSE k \in keys : \A other \in keys \ {k} :
                         \/ Len(k) < Len(other)
                         \/ Len(k) = Len(other) /\ strless(k, other)
         IN  <<least>> \o sorted_by_number(keys \ {least})

\* sorted(keys) of a set of strings
RECURSIVE sorted(_)
sorted(keys) ==
    IF keys = {} THEN <<>>
    ELSE LET least == CHOOSE k \in keys : \A other \in keys \ {k} : strless(k, other) IN
         <<least>> \o sorted(keys \ {least})

\* d[key] = [item] in place of setdefault and append: the list is replaced
setdefault_assign(d, key, item) ==
    [k \in (DOMAIN d) \cup {key} |-> IF k = key THEN <<item>> ELSE d[k]]

\* d.setdefault(key, []).append(item) on a dict d
setdefault_append(d, key, item) ==
    IF key \in DOMAIN d THEN [d EXCEPT ![key] = Append(@, item)]
    ELSE [k \in (DOMAIN d) \cup {key} |-> IF k = key THEN <<item>> ELSE d[k]]

----------------------------------------------------------------------------
\* The participant

\* PROPERTY_RE.match(line) for PROPERTY_RE = (language\d+|instrument\d+)(\..+):
\* the word, the longest run of digits (at least one), a dot, and the rest of
\* the line up to the first '\n' (at least one character).
RECURSIVE digits(_, _)
digits(line, i) ==
    IF i <= Len(line) /\ isdigit(line[i]) THEN 1 + digits(line, i + 1) ELSE 0

PROPERTY_RE_match(line) ==
    LET n == digits(line, 2)
        nl == find(line, <<"\n">>, 1)
        end == IF nl = 0 THEN Len(line) ELSE nl - 1
    IN  IF /\ line # <<>>
           /\ line[1] \in {"language", "instrument"}
           /\ n >= 1
           /\ end >= n + 3
           /\ line[n + 2] = "."
        THEN [matched |-> TRUE,
              group1 |-> SubSeq(line, 1, n + 1),
              group2 |-> SubSeq(line, n + 2, end)]
        ELSE [matched |-> FALSE, group1 |-> <<>>, group2 |-> <<>>]

\* _truffle_metainf_file as it would be with arcname.startswith(...) in place
\* of ==: a longer name that begins with the path is taken for the kind
truffle_metainf_file_by_prefix(arcname) ==
    IF arcname \in {"META-INF/truffle/language", "META-INF/truffle/languages"}
    THEN "language"
    ELSE IF arcname = "META-INF/truffle/instrument" THEN "instrument"
    ELSE "None"

\* _truffle_metainf_file(arcname); "None" stands for None
_truffle_metainf_file(arcname) ==
    IF arcname = "META-INF/truffle/language" THEN "language"
    ELSE IF arcname = "META-INF/truffle/instrument" THEN "instrument"
    ELSE "None"

\* The loop of __add__ as it would be without the assertion, a line that does
\* not match being skipped like a comment
RECURSIVE collect_properties_skipping(_, _, _)
collect_properties_skipping(lines, i, properties) ==
    IF i > Len(lines) THEN [err |-> "", properties |-> properties]
    ELSE LET m == PROPERTY_RE_match(lines[i]) IN
         IF startswith(lines[i], <<"#">>) \/ ~m.matched
         THEN collect_properties_skipping(lines, i + 1, properties)
         ELSE collect_properties_skipping(lines, i + 1,
                  setdefault_append(properties, m.group1, m.group2))

\* The loop of __add__ over the lines, from line i on: a comment line is
\* skipped, a line that does not match fails the assertion, any other line is
\* appended to the list of its group.
RECURSIVE collect_properties(_, _, _)
collect_properties(lines, i, properties) ==
    IF i > Len(lines) THEN [err |-> "", properties |-> properties]
    ELSE IF startswith(lines[i], <<"#">>)
         THEN collect_properties(lines, i + 1, properties)
    ELSE LET m == PROPERTY_RE_match(lines[i]) IN
         IF ~m.matched THEN [err |-> "AssertionError", properties |-> properties]
         ELSE collect_properties(lines, i + 1,
                                 setdefault_append(properties, m.group1, m.group2))

\* __add__(arcname, contents) on a participant whose settings are `settings`
\* (hasattr: __opened__ has run): the value returned, the exception raised
\* ("" for none) and the settings afterwards.
__add__(arcname, contents, settings, hasattr) ==
    LET metainfFile == _truffle_metainf_file(arcname) IN
    IF metainfFile = "None"
    THEN [ret |-> "False", err |-> "", settings |-> settings]
    ELSE LET r == collect_properties(split(strip(contents), <<"\n">>), 1, <<>>) IN
         IF r.err # ""
         THEN [ret |-> "", err |-> r.err, settings |-> settings]
         ELSE IF ~hasattr
         THEN [ret |-> "", err |-> "AttributeError", settings |-> settings]
         ELSE [ret |-> "True", err |-> "",
               settings |-> setdefault_append(settings, metainfFile, r.properties)]

\* The two inner loops of __closing__ for one batch: the keys in sorted order
\* from the i-th on, each checked against the kind, given the next number and
\* followed by its lines.
RECURSIVE merge_properties(_, _, _, _, _, _)
merge_properties(metainfFile, properties, keys, i, counter, lines) ==
    IF i > Len(keys) THEN [err |-> "", counter |-> counter, lines |-> lines]
    ELSE LET enum == keys[i] IN
         IF ~startswith(enum, <<metainfFile>>)
         THEN [err |-> "AssertionError", counter |-> counter, lines |-> lines]
         ELSE LET newEnum == <<metainfFile>> \o str(counter) IN
              merge_properties(metainfFile, properties, keys, i + 1, counter + 1,
                  lines \o [j \in 1..Len(properties[enum]) |->
                               newEnum \o properties[enum][j]])

\* The loop over the batches as it would be with counter = 1 set inside it:
\* the numbering starts again with every batch
RECURSIVE merge_batches_restarting(_, _, _, _, _)
merge_batches_restarting(metainfFile, propertiesList, b, counter, lines) ==
    IF b > Len(propertiesList) THEN [err |-> "", counter |-> counter, lines |-> lines]
    ELSE LET r == merge_properties(metainfFile, propertiesList[b],
                                   sorted(DOMAIN propertiesList[b]), 1, 1, lines)
         IN  IF r.err # "" THEN r
             ELSE merge_batches_restarting(metainfFile, propertiesList, b + 1,
                                           r.counter, r.lines)

\* The loop of __closing__ over the batches of one kind, from the b-th on
RECURSIVE merge_batches(_, _, _, _, _)
merge_batches(metainfFile, propertiesList, b, counter, lines) ==
    IF b > Len(propertiesList) THEN [err |-> "", counter |-> counter, lines |-> lines]
    ELSE LET r == merge_properties(metainfFile, propertiesList[b],
                                   sorted(DOMAIN propertiesList[b]), 1, counter, lines)
         IN  IF r.err # "" THEN r
             ELSE merge_batches(metainfFile, propertiesList, b + 1, r.counter, r.lines)

\* The entry as it would be written without the trailing separator
merged_entry_unterminated(metainfFile, lines, sep) ==
    [arcname |-> "META-INF/truffle/" \o metainfFile,
     content |-> join(sep, lines)]

\* The entry __closing__ writes for one kind
merged_entry(metainfFile, lines, sep) ==
    [arcname |-> "META-INF/truffle/" \o metainfFile,
     content |-> join(sep, lines) \o sep]

\* __closing__: the kinds of settings are visited in the order `order` (the
\* order of a dict's items); each is merged and written, and a failed assertion
\* ends the call with the entries written so far.
RECURSIVE __closing__(_, _, _, _, _)
__closing__(order, i, settings, zf, sep) ==
    IF i > Len(order) THEN [err |-> "", zf |-> zf]
    ELSE LET metainfFile == order[i]
             r == merge_batches(metainfFile, settings[metainfFile], 1, 1, <<>>)
         IN  IF r.err # "" THEN [err |-> r.err, zf |-> zf]
             ELSE __closing__(order, i + 1, settings,
                              Append(zf, merged_entry(metainfFile, r.lines, sep)), sep)

\* the orders in which iteritems() may yield the keys of a dict
iteritems_orders(d) ==
    {o \in [1..Cardinality(DOMAIN d) -> DOMAIN d] :
        \A i, j \in 1..Cardinality(DOMAIN d) : i # j => o[i] # o[j]}

----------------------------------------------------------------------------
\* The host: the archive writer that drives the participant

\* The lines the entries of the input jars are made of: well-formed lines of
\* both kinds (two of one group, and a group whose number sorts before "2" as
\* a string), a comment, an empty line and a line without a number.
Lines ==
    { <<"language", "2", ".", "a">>,
      <<"language", "2", ".", "b">>,
      <<"language", "1", "0", ".", "a">>,
      <<"instrument", "1", ".", "a">>,
      <<"#", "c">>,
      <<>>,
      <<"language", ".", "a">> }

\* The contents of at most n lines
Contents(n) ==
    {join(<<"\n">>, ls) : ls \in UNION {[1..k -> Lines] : k \in 1..n}}

\* The names of the entries the host offers to __add__
ArcNames ==
    { "META-INF/truffle/language",
      "META-INF/truffle/instrument",
      "META-INF/truffle/languages" }

\* os.linesep of the platforms the build runs on
LineSeps == { <<"\n">>, <<"\r", "\n">> }

VARIABLES
    pc,        \* where the host is: "new", "open", "closed", "aborted"
    settings,  \* self.settings: kind -> list of batches (group key -> suffixes)
    zf,        \* self.arc.zf: the entries written to the archive, in order
    linesep,   \* os.linesep
    op,        \* the last call: its method and its arcname argument
    ret,       \* what the last call returned ("" when it raised)
    err,       \* the exception the last call raised ("" for none)
    log,       \* the __add__ calls under a recognized name since __opened__
    prev,      \* the entries of the archive closed before the last __opened__
    used,      \* raw lines passed to __add__ under a recognized name so far
    closes     \* __closing__ calls since __opened__

vars == <<pc, settings, zf, linesep, op, ret, err, log, prev, used, closes>>

\* A participant as TruffleArchiveParticipant() leaves it: no attribute is set
\* before __opened__ (settings and zf hold placeholders while pc = "new").
Init ==
    /\ pc = "new"
    /\ settings = <<>>
    /\ zf = <<>>
    /\ linesep \in LineSeps
    /\ op = [name |-> "__init__", arcname |-> ""]
    /\ ret = "None"
    /\ err = ""
    /\ log = <<>>
    /\ prev = <<>>
    /\ used = 0
    /\ closes = 0

\* The contents of the entries named arcname in the archive built before
prev_contents(arcname) ==
    {prev[i].content : i \in {j \in 1..Len(prev) : prev[j].arcname = arcname}}

\* __opened__(arc, srcArc, services): a new archive, empty settings; `from`
\* are the places the host calls it from.
opened_step(from) ==
    /\ pc \in from
    /\ pc' = "open"
    /\ settings' = <<>>
    /\ zf' = <<>>
    /\ prev' = IF pc = "closed" THEN zf ELSE prev
    /\ op' = [name |-> "__opened__", arcname |-> ""]
    /\ ret' = "None"
    /\ err' = ""
    /\ log' = <<>>
    /\ closes' = 0
    /\ UNCHANGED <<linesep, used>>

\* __add__(arcname, contents) for an entry of an input jar, or of the archive
\* built before.  strict: the host follows the protocol (open, add*, close)
\* and an exception aborts the build; otherwise it calls in any order and
\* goes on after an exception.
add_step(strict) ==
    /\ IF strict THEN pc = "open" ELSE pc # "aborted"
    /\ \E arcname \in ArcNames :
       \E contents \in Contents(MaxLines - used) \cup prev_contents(arcname) :
          LET cost == Len(split(contents, <<"\n">>))
              handled == _truffle_metainf_file(arcname) # "None"
              r == __add__(arcname, contents, settings, pc # "new")
          IN  /\ used + cost <= MaxLines
              /\ settings' = r.settings
              /\ ret' = r.ret
              /\ err' = r.err
              /\ op' = [name |-> "__add__", arcname |-> arcname]
              /\ log' = IF handled
                        THEN Append(log, [arcname |-> arcname, contents |-> contents,
                                          err |-> r.err])
                        ELSE log
              /\ used' = IF handled THEN used + cost ELSE used
              /\ pc' = IF strict /\ r.err # "" THEN "aborted" ELSE pc
    /\ UNCHANGED <<zf, linesep, prev, closes>>

\* __closing__()
closing_step(strict) ==
    /\ IF strict THEN pc = "open" ELSE pc # "aborted" /\ closes < MaxCloses
    /\ \E order \in iteritems_orders(settings) :
          LET r == IF pc = "new" THEN [err |-> "AttributeError", zf |-> zf]
                   ELSE __closing__(order, 1, settings, zf, linesep)
          IN  /\ zf' = r.zf
              /\ err' = r.err
              /\ ret' = IF r.err = "" THEN "None" ELSE ""
              /\ pc' = IF r.err = "" THEN "closed"
                       ELSE IF strict THEN "aborted" ELSE pc
    /\ op' = [name |-> "__closing__", arcname |-> ""]
    /\ closes' = closes + 1
    /\ UNCHANGED <<settings, linesep, log, prev, used>>

Opened == opened_step({"new"})

Add == add_step(TRUE)

Closing == closing_step(TRUE)

Next == Opened \/ Add \/ Closing

\* The participant during the assembly of one archive, under a host that
\* follows the protocol
Spec == Init /\ [][Next]_vars

Reopened == opened_step({"closed"})

NextArchives == Opened \/ Add \/ Closing \/ Reopened

\* The participant reused for one archive after the other, the later ones
\* taking entries of the earlier
SpecArchives == Init /\ [][NextArchives]_vars

AnyOpened == opened_step({"new", "open", "closed"})

AnyAdd == add_step(FALSE)

AnyClosing == closing_step(FALSE)

NextAnyOrder == AnyOpened \/ AnyAdd \/ AnyClosing

\* The participant under a host that calls its methods in any order
SpecAnyOrder == Init /\ [][NextAnyOrder]_vars

----------------------------------------------------------------------------
\* What the claims speak of, read off the calls the host made

Kinds == {"language", "instrument"}

KindPath(K) == "META-INF/truffle/" \o K

Recognized(arcname) == \E K \in Kinds : arcname = KindPath(K)

\* the lines of an entry as the merger reads it
EntryLines(contents) == split(strip(contents), <<"\n">>)

IsComment(line) == line # <<>> /\ Head(line) = "#"

DotAt(line) == find(line, <<".">>, 1)

\* <kind><digits>.<non-empty rest>
WellFormed(line) ==
    /\ line # <<>>
    /\ Head(line) \in Kinds
    /\ DotAt(line) >= 3
    /\ \A j \in 2..(DotAt(line) - 1) : isdigit(line[j])
    /\ Len(line) > DotAt(line)

KeyOf(line) == SubSeq(line, 1, DotAt(line) - 1)

IndexOf(line) == SubSeq(line, 2, DotAt(line) - 1)

SuffixOf(line) == SubSeq(line, DotAt(line), Len(line))

\* the non-comment lines of an entry, in their order of appearance
DataLines(contents) ==
    LET NotComment(l) == ~IsComment(l) IN SelectSeq(EntryLines(contents), NotComment)

\* an entry with a non-comment line that does not match the pattern
HasBadLine(contents) ==
    \E i \in 1..Len(DataLines(contents)) : ~WellFormed(DataLines(contents)[i])

\* the batches of kind K: the data lines of each add of K that returned, in call order
Batches(K) ==
    LET Taken(e) == e.arcname = KindPath(K) /\ e.err = ""
        adds == SelectSeq(log, Taken)
    IN  [b \in 1..Len(adds) |-> DataLines(adds[b].contents)]

BatchKeys(batch) == {KeyOf(batch[i]) : i \in 1..Len(batch)}

RECURSIVE GroupsBefore(_, _)
GroupsBefore(batches, b) ==
    IF b <= 1 THEN 0
    ELSE GroupsBefore(batches, b - 1) + Cardinality(BatchKeys(batches[b - 1]))

\* the place of a key among the keys of its batch, in string order
Rank(key, keys) == 1 + Cardinality({k \in keys : strless(k, key)})

\* the lines of the group of `key` in batch b, under its new number
GroupLines(K, batches, b, key) ==
    LET OfKey(l) == KeyOf(l) = key
        own == SelectSeq(batches[b], OfKey)
        n == GroupsBefore(batches, b) + Rank(key, BatchKeys(batches[b]))
    IN  [j \in 1..Len(own) |-> <<K>> \o str(n) \o SuffixOf(own[j])]

RECURSIVE BatchLines(_, _, _, _)
BatchLines(K, batches, b, r) ==
    LET keys == BatchKeys(batches[b]) IN
    IF r > Cardinality(keys) THEN <<>>
    ELSE GroupLines(K, batches, b, CHOOSE k \in keys : Rank(k, keys) = r)
            \o BatchLines(K, batches, b, r + 1)

RECURSIVE MergedLines(_, _, _)
MergedLines(K, batches, b) ==
    IF b > Len(batches) THEN <<>>
    ELSE BatchLines(K, batches, b, 1) \o MergedLines(K, batches, b + 1)

\* the blob the specification describes for kind K
MergedBlob(K) == join(linesep, MergedLines(K, Batches(K), 1)) \o linesep

\* the entries written under the path of kind K
Written(K) ==
    LET OfKind(e) == e.arcname = KindPath(K) IN SelectSeq(zf, OfKind)

EndsWithSep(content) ==
    /\ Len(content) >= Len(linesep)
    /\ SubSeq(content, Len(content) - Len(linesep) + 1, Len(content)) = linesep

\* the lines of a written blob: what was joined before the trailing separator
WrittenLines(content) ==
    LET body == SubSeq(content, 1, Len(content) - Len(linesep)) IN
    IF body = <<>> THEN <<>> ELSE split(body, linesep)

Closed == op.name = "__closing__"

ClosedOk == op.name = "__closing__" /\ err = ""

----------------------------------------------------------------------------
\* Claims

\* The lines used in the witnesses
L2a == <<"language", "2", ".", "a">>

L2b == <<"language", "2", ".", "b">>

L10a == <<"language", "1", "0", ".", "a">>

I1a == <<"instrument", "1", ".", "a">>

\* C1: every blob __closing__ writes for a kind is the batches of that kind in
\* the order of their adds, in each batch the group keys in string order, the
\* i-th group so visited written as the lines <kind><i><suffix> for its
\* suffixes in their order of appearance, joined by the line separator with
\* one trailing separator; a close that returns writes it for every kind that
\* had a handled add.
C1_BlobIsTheMerge ==
    Closed =>
        /\ \A i \in 1..Len(zf) : \A K \in Kinds :
              zf[i].arcname = KindPath(K) => zf[i].content = MergedBlob(K)
        /\ err = "" => \A K \in Kinds : Batches(K) # <<>> => Written(K) # <<>>

\* C1 witness: batch 1 with the keys language2 and language10 (in that order),
\* batch 2 with language2 again: language10 becomes 1, language2 becomes 2, and
\* the language2 of batch 2 becomes 3.
C1_Witness ==
    /\ ClosedOk
    /\ Len(log) = 2
    /\ log[1].contents = L2a \o <<"\n">> \o L10a
    /\ log[2].contents = L2b
    /\ linesep = <<"\n">>
    /\ zf = << [arcname |-> "META-INF/truffle/language",
                content |-> <<"language", "1", ".", "a", "\n",
                              "language", "2", ".", "a", "\n",
                              "language", "3", ".", "b", "\n">>] >>

\* C2: __add__ returns True only under one of the two recognized names and
\* False only under another name; under another name, whatever the contents,
\* it returns False, raises nothing and leaves the settings and the archive
\* as they were.
C2_OtherNamesNotHandled ==
    [][op'.name = "__add__" =>
          /\ ret' = "True" => Recognized(op'.arcname)
          /\ ret' = "False" => ~Recognized(op'.arcname)
          /\ ~Recognized(op'.arcname) =>
                /\ ret' = "False"
                /\ err' = ""
                /\ settings' = settings
                /\ zf' = zf]_vars

\* C2 witness: after a handled add, an add under a name one letter longer than
\* a recognized one was refused.
C2_Witness ==
    /\ op = [name |-> "__add__", arcname |-> "META-INF/truffle/languages"]
    /\ ret = "False"
    /\ err = ""
    /\ pc = "open"
    /\ Len(log) = 1
    /\ log[1].err = ""
    /\ DOMAIN settings = {"language"}

\* C3: a recognized entry with a non-comment line that does not match the
\* pattern makes __add__ raise; the settings are those before the call, the
\* build is aborted, and nothing was or will be written to the archive of
\* that session.
C3_BadLineIsFatal ==
    [][/\ (Len(log') = Len(log) + 1 /\ HasBadLine(log'[Len(log')].contents)) =>
             /\ err' = "AssertionError"
             /\ pc' = "aborted"
             /\ settings' = settings
             /\ zf' = <<>>
       /\ pc = "aborted" => zf' = zf /\ settings' = settings]_vars

\* C3 witness: after a good add, an entry whose first line is good and whose
\* second line has no number aborted the build; only the first batch is held.
C3_Witness ==
    /\ pc = "aborted"
    /\ op.name = "__add__"
    /\ err = "AssertionError"
    /\ Len(log) = 2
    /\ log[1].err = ""
    /\ log[2].contents = L2a \o <<"\n">> \o <<"language", ".", "a">>
    /\ log[2].arcname = log[1].arcname
    /\ Len(settings[_truffle_metainf_file(log[1].arcname)]) = 1
    /\ zf = <<>>

\* the lines of the blob written for kind K (none when no entry was written)
LinesWritten(K) ==
    IF Written(K) = <<>> THEN <<>> ELSE WrittenLines(Written(K)[1].content)

\* the data lines of all batches of kind K in order, each with its batch
RECURSIVE Tagged(_, _)
Tagged(batches, b) ==
    IF b > Len(batches) THEN <<>>
    ELSE [j \in 1..Len(batches[b]) |-> [batch |-> b, line |-> batches[b][j]]]
            \o Tagged(batches, b + 1)

InputLines(K) == Tagged(Batches(K), 1)

\* p maps each input line to a written line with the same suffix
Carries(W, In, p) ==
    /\ Len(W) = Len(In)
    /\ \A i \in 1..Len(In) : SuffixOf(W[p[i]]) = SuffixOf(In[i].line)

\* C5: groups are never merged across batches: the lines of two different adds
\* of one kind are written under different new numbers even when their
\* original group keys are equal, and the number of groups written for a kind
\* is the sum over its batches of the number of distinct keys of the batch.
C5_NoMergeAcrossBatches ==
    Closed => \A K \in Kinds : Written(K) # <<>> =>
        LET W == LinesWritten(K)
            In == InputLines(K)
            batches == Batches(K)
        IN  /\ Cardinality({KeyOf(W[i]) : i \in 1..Len(W)})
                  = GroupsBefore(batches, Len(batches) + 1)
            /\ \E p \in Permutations(1..Len(In)) :
                  /\ Carries(W, In, p)
                  /\ \A i, j \in 1..Len(In) :
                        In[i].batch # In[j].batch =>
                            IndexOf(W[p[i]]) # IndexOf(W[p[j]])

\* C5 witness: two adds of the language entry, both with the line language2.a,
\* were written as the groups language1 and language2.
C5_Witness ==
    /\ ClosedOk
    /\ Len(log) = 2
    /\ log[1].contents = L2a
    /\ log[2].contents = L2a
    /\ log[1].arcname = "META-INF/truffle/language"
    /\ log[2].arcname = "META-INF/truffle/language"
    /\ LinesWritten("language") = << <<"language", "1", ".", "a">>,
                                     <<"language", "2", ".", "a">> >>

C10_LinesConserved ==
    ClosedOk => \A K \in Kinds :
        LET W == LinesWritten(K)
            In == InputLines(K)
            numbers == {IndexOf(W[i]) : i \in 1..Len(W)}
        IN  /\ \E p \in Permutations(1..Len(In)) :
                  /\ Carries(W, In, p)
                  /\ \A i, j \in 1..Len(In) :
                        (IndexOf(W[p[i]]) = IndexOf(W[p[j]]))
                        <=> /\ In[i].batch = In[j].batch
                            /\ KeyOf(In[i].line) = KeyOf(In[j].line)
            /\ numbers = {str(n) : n \in 1..Cardinality(numbers)}

\* C10 witness: one add with the lines language2.a, language10.a, language2.b
\* was written as three lines in two groups.
C10_Witness ==
    /\ ClosedOk
    /\ Len(InputLines("language")) = 3
    /\ LinesWritten("language") = << <<"language", "1", ".", "a">>,
                                     <<"language", "2", ".", "a">>,
                                     <<"language", "2", ".", "b">> >>

\* the groups of a written blob: new key -> its suffixes in order
Grouping(content) ==
    LET W == WrittenLines(content) IN
    [k \in {KeyOf(W[i]) : i \in 1..Len(W)} |->
        LET OfKey(l) == KeyOf(l) = k
            own == SelectSeq(W, OfKey)
        IN  [j \in 1..Len(own) |-> SuffixOf(own[j])]]

\* C4: when the only add of a session is a blob written by the session before,
\* under the name it was written under, the add and the close return and the
\* blob written has the groups of the one added, each with its number and its
\* suffixes.
C4_RemergeIsIdempotent ==
    (Len(log) = 1 /\ log[1].contents \in prev_contents(log[1].arcname)) =>
        /\ log[1].err = ""
        /\ Closed =>
              /\ err = ""
              /\ Len(zf) = 1
              /\ zf[1].arcname = log[1].arcname
              /\ Grouping(zf[1].content) = Grouping(log[1].contents)

\* the contents without their comment lines
WithoutComments(contents) ==
    LET NotComment(l) == ~IsComment(l) IN
    join(<<"\n">>, SelectSeq(split(contents, <<"\n">>), NotComment))

\* the batch the i-th logged add recorded (for an add that returned)
RecordedBatch(i) ==
    LET SameBefore(j) == log[j].arcname = log[i].arcname /\ log[j].err = ""
    IN  settings[_truffle_metainf_file(log[i].arcname)]
                [Cardinality({j \in 1..i : SameBefore(j)})]

\* C6: two entries of one name that differ only in comment lines, wherever the
\* comment lines stand, both succeed or both fail, and record the same batch.
C6_CommentsIgnored ==
    \A i, j \in 1..Len(log) :
        (/\ log[i].arcname = log[j].arcname
         /\ WithoutComments(log[i].contents) = WithoutComments(log[j].contents)) =>
            /\ log[i].err = "" <=> log[j].err = ""
            /\ (log[i].err = "" /\ log[j].err = "") => RecordedBatch(i) = RecordedBatch(j)

\* the number of lines in the entries written for kind K, all entries counted
RECURSIVE LinesInEntries(_)
LinesInEntries(entries) ==
    IF entries = <<>> THEN 0
    ELSE Len(WrittenLines(Head(entries).content)) + LinesInEntries(Tail(entries))

\* C7: __opened__ leaves the settings empty, and whatever the order of the
\* calls no batch is written to an archive twice: the entries written for a
\* kind hold no more lines than were added for it since __opened__.
C7_ConsumedOnce ==
    /\ op.name = "__opened__" => settings = <<>>
    /\ \A K \in Kinds : LinesInEntries(Written(K)) <= Len(InputLines(K))

\* C9: when every add returned, the close returns too, and every line written
\* to META-INF/truffle/<kind> begins with <kind> and a decimal number.
C9_CloseNeverFails ==
    Closed =>
        /\ err = ""
        /\ \A K \in Kinds : \A i \in 1..Len(LinesWritten(K)) :
              WellFormed(LinesWritten(K)[i]) /\ Head(LinesWritten(K)[i]) = K

====
